---- MODULE Spec2Model ----
(***************************************************************************)
(* Commerce ledger of StockApp: the products store, the cart and the sales *)
(* of the sales store, the stock-movement log, and the page handlers that  *)
(* drive them (POS.tsx, Stock.tsx, Products.tsx, Reports.tsx), and the     *)
(* debts store with the payment dialog of Debts.tsx.                       *)
(*                                                                         *)
(* Amounts are JavaScript numbers in the source.  The model keeps them as  *)
(* integers: the prices of the model are multiples of 5 and the VAT rate   *)
(* is 20, so subtotal * vatRate / 100 is a whole number and \div computes  *)
(* exactly what the source's division computes.                            *)
(* Identifiers minted by Math.random() are modelled as fresh numbers.      *)
(* new Date() is read from the clock `now`, which counts months.           *)
(***************************************************************************)
EXTENDS Integers, Sequences, FiniteSets, TLC

\* ------------------------------------------------------------------ bounds
MaxQty == 2           \* largest quantity typed in a form or reached by an 'in' adjustment
MaxSales == 1         \* sales recorded
MaxMovements == 1     \* stock movements recorded
MaxInvoices == 2      \* sales recorded on the sales page specification
MaxLog == 2           \* stock movements recorded on the stock page specification
MaxMonth == 2         \* months the clock runs through
MaxDebts == 2         \* debts opened
MaxPayments == 2      \* payments recorded, over all debts

\* ------------------------------------------------------- program constants
vatRate == 20         \* defaultSettings.company.vatRate
defaultMinQuantity == 5   \* parseInt(formData.minQuantity) || 5

\* ------------------------------------------------------------ input sets
MinQuantities == {0, 1}                 \* minimum-quantity field of the product form
Prices == {5, 10}                       \* sale prices typed in the product form
FormQuantities == 0 .. MaxQty           \* quantity field of the product form
AdjustmentQuantities == -1 .. MaxQty    \* parseInt(adjustmentQuantity): the field takes any number
PaidAmounts == {0, 12, 40}              \* parseFloat(paidAmount || '0')
PaymentMethods == {"cash", "card", "transfer", "mixed"}
ProductIds == {1, 2}                    \* the identifiers the product form mints, in this order
DebtAmounts == {10, 20}                 \* debt.amount
PaymentValues == {-5, 0, 5, 10}         \* payment.amount: any number, the store checks none

VARIABLES
    products,        \* useProductsStore.products: sequence of product records
    productsCreated, \* number of product ids minted so far
    cart,            \* useSalesStore.cart: sequence of SaleItem
    sales,           \* useSalesStore.sales: newest first
    movements,       \* useStockMovementsStore.movements: newest first
    debts,           \* useDebtsStore.debts: newest first
    now,             \* the month new Date() falls in
    toast,           \* the toast raised by the handler invoked last, "none" when it raised none
    call,            \* the step taken last and the product it was taken for
    currentUser,     \* useAuthStore.currentUser: the role of the user, "none" for null
    isAuthenticated, \* useAuthStore.isAuthenticated
    currentPage      \* the currentPage state of App

vars == <<products, productsCreated, cart, sales, movements, debts, now, toast, call,
          currentUser, isAuthenticated, currentPage>>

\* ----------------------------------------------------------------- helpers
\* products.find((p) => p.id === id): the index of the first match, 0 when
\* there is none
FindProduct(ps, id) ==
    IF \E i \in 1 .. Len(ps) : ps[i].id = id
    THEN CHOOSE i \in 1 .. Len(ps) : ps[i].id = id /\ \A j \in 1 .. (i - 1) : ps[j].id # id
    ELSE 0

\* cart.find((i) => i.productId === productId): the index of the first
\* match, 0 when there is none
FindItem(c, productId) ==
    IF \E i \in 1 .. Len(c) : c[i].productId = productId
    THEN CHOOSE i \in 1 .. Len(c) :
            c[i].productId = productId /\ \A j \in 1 .. (i - 1) : c[j].productId # productId
    ELSE 0

\* { ...p, ...patch }
Merge(p, patch) ==
    [f \in DOMAIN p |-> IF f \in DOMAIN patch THEN patch[f] ELSE p[f]]

Max(a, b) == IF a >= b THEN a ELSE b

\* ---------------------------------------------------------- products store
addProduct(ps, id, product) ==
    Append(ps, [id |-> id, salePrice |-> product.salePrice, quantity |-> product.quantity,
                minQuantity |-> product.minQuantity])

updateProduct(ps, id, patch) ==
    [i \in 1 .. Len(ps) |-> IF ps[i].id = id THEN Merge(ps[i], patch) ELSE ps[i]]

deleteProduct(ps, id) ==
    LET keep(p) == p.id # id IN SelectSeq(ps, keep)

getLowStockProducts(ps) ==
    LET low(p) == p.quantity <= p.minQuantity IN SelectSeq(ps, low)

\* ---------------------------------------------------------- dashboard store
\* the stock figure of the dashboard statistics
getStats(ps) ==
    LET low(p) == p.quantity <= p.minQuantity
        lowStockProducts == SelectSeq(ps, low)
    IN [lowStockCount |-> Len(lowStockProducts)]

\* ------------------------------------------------------------- sales store
\* addToCart without the merge: every add appends a line
addToCart_append(c, item) == Append(c, item)

\* addToCart merging at the price of the added item instead of the line's
addToCart_reprice(c, item) ==
    IF FindItem(c, item.productId) # 0
    THEN [k \in 1 .. Len(c) |->
            IF c[k].productId = item.productId
            THEN [c[k] EXCEPT !.quantity = c[k].quantity + item.quantity,
                              !.unitPrice = item.unitPrice,
                              !.total = (c[k].quantity + item.quantity) * item.unitPrice]
            ELSE c[k]]
    ELSE Append(c, item)

addToCart(c, item) ==
    IF FindItem(c, item.productId) # 0
    THEN [k \in 1 .. Len(c) |->
            IF c[k].productId = item.productId
            THEN [c[k] EXCEPT !.quantity = c[k].quantity + item.quantity,
                              !.total = (c[k].quantity + item.quantity) * c[k].unitPrice]
            ELSE c[k]]
    ELSE Append(c, item)

\* removeFromCart that drops the first line of the cart, whatever its product
removeFromCart_first(c, productId) == IF c = <<>> THEN c ELSE Tail(c)

removeFromCart(c, productId) ==
    LET keep(i) == i.productId # productId IN SelectSeq(c, keep)

\* updateCartItem that leaves the line total as it was
updateCartItem_staleTotal(c, productId, quantity) ==
    [k \in 1 .. Len(c) |->
        IF c[k].productId = productId
        THEN [c[k] EXCEPT !.quantity = quantity]
        ELSE c[k]]

updateCartItem(c, productId, quantity) ==
    [k \in 1 .. Len(c) |->
        IF c[k].productId = productId
        THEN [c[k] EXCEPT !.quantity = quantity, !.total = quantity * c[k].unitPrice]
        ELSE c[k]]

\* cart.reduce((total, item) => total + item.total, 0)
RECURSIVE getCartTotal(_)
getCartTotal(c) ==
    IF c = <<>> THEN 0 ELSE getCartTotal(SubSeq(c, 1, Len(c) - 1)) + c[Len(c)].total

\* String(count): the decimal digits of a natural number, most significant
\* first
RECURSIVE Digits(_)
Digits(n) == IF n < 10 THEN <<n>> ELSE Digits(n \div 10) \o <<n % 10>>

\* str.padStart(targetLength, '0') on a string of digits
RECURSIVE padStart(_, _)
padStart(str, targetLength) ==
    IF Len(str) >= targetLength THEN str ELSE padStart(<<0>> \o str, targetLength)

\* the invoice number counting only the sales that are not cancelled
generateInvoiceNumber_liveSales(ss, date) ==
    LET live(sale) == sale.status # "cancelled" IN
    [prefix |-> "INV",
     yearMonth |-> date,
     sequence |-> padStart(Digits(Len(SelectSeq(ss, live)) + 1), 4)]

\* `${prefix}-${year}${month}-${String(count).padStart(4, '0')}`, kept as its
\* three parts; count = sales.length + 1
generateInvoiceNumber(ss, date) ==
    [prefix |-> "INV",
     yearMonth |-> date,
     sequence |-> padStart(Digits(Len(ss) + 1), 4)]

\* the stock update debiting one unit per line instead of the line's quantity
RECURSIVE DebitStock_unit(_, _, _)
DebitStock_unit(ps, snapshot, items) ==
    IF items = <<>> THEN ps
    ELSE LET item == Head(items)
             k == FindProduct(snapshot, item.productId)
         IN  DebitStock_unit(
                 IF k # 0
                 THEN updateProduct(ps, item.productId,
                                    [quantity |-> snapshot[k].quantity - 1])
                 ELSE ps,
                 snapshot, Tail(items))

\* the stock update of addSale: every item is subtracted from the quantity
\* its product had in the snapshot taken before the loop
RECURSIVE DebitStock(_, _, _)
DebitStock(ps, snapshot, items) ==
    IF items = <<>> THEN ps
    ELSE LET item == Head(items)
             k == FindProduct(snapshot, item.productId)
         IN  DebitStock(
                 IF k # 0
                 THEN updateProduct(ps, item.productId,
                                    [quantity |-> snapshot[k].quantity - item.quantity])
                 ELSE ps,
                 snapshot, Tail(items))

newSale(ss, sale, date) ==
    [id |-> Len(ss) + 1,
     invoiceNumber |-> generateInvoiceNumber(ss, date),
     createdAt |-> date,
     items |-> sale.items,
     subtotal |-> sale.subtotal,
     vatAmount |-> sale.vatAmount,
     total |-> sale.total,
     paymentMethod |-> sale.paymentMethod,
     paidAmount |-> sale.paidAmount,
     change |-> sale.change,
     status |-> sale.status]

addSale(sale) ==
    /\ sales' = <<newSale(sales, sale, now)>> \o sales
    /\ products' = DebitStock(products, products, sale.items)

\* cancelSale marking every sale cancelled
cancelSale_all(ss, id) ==
    [i \in 1 .. Len(ss) |-> [ss[i] EXCEPT !.status = "cancelled"]]

\* cancelSale that also takes the payment off the sale
cancelSale_refund(ss, id) ==
    [i \in 1 .. Len(ss) |->
        IF ss[i].id = id
        THEN [ss[i] EXCEPT !.status = "cancelled", !.paidAmount = 0]
        ELSE ss[i]]

\* cancelSale that takes the sale out of the list
cancelSale_remove(ss, id) ==
    LET keep(sale) == sale.id # id IN SelectSeq(ss, keep)

cancelSale(ss, id) ==
    [i \in 1 .. Len(ss) |->
        IF ss[i].id = id THEN [ss[i] EXCEPT !.status = "cancelled"] ELSE ss[i]]

\* ---------------------------------------------------- stock movements store
\* addMovement that keeps only the movement it is given
addMovement_latestOnly(ms, movement, date) ==
    <<[id |-> Len(ms) + 1,
       createdAt |-> date,
       productId |-> movement.productId,
       type |-> movement.type,
       quantity |-> movement.quantity]>>

\* { ...movement, id, createdAt } in front of the movements
addMovement(ms, movement, date) ==
    <<[id |-> Len(ms) + 1,
       createdAt |-> date,
       productId |-> movement.productId,
       type |-> movement.type,
       quantity |-> movement.quantity]>> \o ms

\* -------------------------------------------------------------- debts store
\* the objects addDebt is given (Omit<Debt, 'id' | 'createdAt'>): the caller
\* supplies paid, remaining and status along with the amount.  saleId and
\* dueDate are optional: 0 stands for a field that is not set
DebtInputs ==
    {[amount |-> a, paid |-> 0, remaining |-> a, status |-> "pending",
      saleId |-> 0, dueDate |-> 0] : a \in DebtAmounts}
    \cup {[amount |-> 10, paid |-> 0, remaining |-> 5, status |-> "pending",
           saleId |-> 0, dueDate |-> 0],
          [amount |-> 10, paid |-> 5, remaining |-> 10, status |-> "paid",
           saleId |-> 0, dueDate |-> 0]}

\* debts opened with and without a due date, the date a month of the clock
DatedDebtInputs ==
    {[amount |-> 10, paid |-> 0, remaining |-> 10, status |-> "pending",
      saleId |-> 0, dueDate |-> t] : t \in 0 .. MaxMonth}

\* { ...debt, id, createdAt } in front of the debts; a debt without a
\* payments field is kept with the empty list d.payments || [] reads it as
addDebt(ds, id, debt, date) ==
    <<[id |-> id,
       createdAt |-> date,
       amount |-> debt.amount,
       paid |-> debt.paid,
       remaining |-> debt.remaining,
       status |-> debt.status,
       saleId |-> debt.saleId,
       dueDate |-> debt.dueDate,
       payments |-> <<>>]>> \o ds

\* addPayment that leaves remaining as it was
addPayment_staleRemaining(ds, debtId, payment, date) ==
    [i \in 1 .. Len(ds) |->
        IF ds[i].id = debtId
        THEN LET d == ds[i]
                 newPaid == d.paid + payment.amount
                 newRemaining == d.amount - newPaid
             IN  [d EXCEPT !.paid = newPaid,
                           !.status = IF newRemaining <= 0 THEN "paid"
                                      ELSE IF newPaid > 0 THEN "partial"
                                      ELSE "pending",
                           !.payments = Append(d.payments,
                                               [id |-> Len(d.payments) + 1,
                                                debtId |-> debtId,
                                                amount |-> payment.amount,
                                                paymentMethod |-> payment.paymentMethod,
                                                paymentDate |-> date])]
        ELSE ds[i]]

addPayment(ds, debtId, payment, date) ==
    [i \in 1 .. Len(ds) |->
        IF ds[i].id = debtId
        THEN LET d == ds[i]
                 newPaid == d.paid + payment.amount
                 newRemaining == d.amount - newPaid
             IN  [d EXCEPT !.paid = newPaid,
                           !.remaining = newRemaining,
                           !.status = IF newRemaining <= 0 THEN "paid"
                                      ELSE IF newPaid > 0 THEN "partial"
                                      ELSE "pending",
                           !.payments = Append(d.payments,
                                               [id |-> Len(d.payments) + 1,
                                                debtId |-> debtId,
                                                amount |-> payment.amount,
                                                paymentMethod |-> payment.paymentMethod,
                                                paymentDate |-> date])]
        ELSE ds[i]]

\* the number of payment records in the store
RECURSIVE PaymentsRecorded(_)
PaymentsRecorded(ds) ==
    IF ds = <<>> THEN 0 ELSE Len(Head(ds).payments) + PaymentsRecorded(Tail(ds))

\* a call of useDebtsStore.addDebt
AddDebtCall(debt) ==
    /\ Len(debts) < MaxDebts
    /\ call' = [op |-> "addDebt", productId |-> 0]
    /\ debts' = addDebt(debts, Len(debts) + 1, debt, now)
    /\ toast' = "none"
    /\ UNCHANGED <<products, productsCreated, cart, sales, movements, now,
                   currentUser, isAuthenticated, currentPage>>

\* a call of useDebtsStore.addPayment
AddPaymentCall(debtId, amount) ==
    /\ PaymentsRecorded(debts) < MaxPayments
    /\ call' = [op |-> "addPayment", productId |-> 0]
    /\ debts' = addPayment(debts, debtId, [amount |-> amount, paymentMethod |-> "cash"], now)
    /\ toast' = "none"
    /\ UNCHANGED <<products, productsCreated, cart, sales, movements, now,
                   currentUser, isAuthenticated, currentPage>>

\* today is new Date() at the call; d.dueDate && ... is false for a debt
\* without a due date
getOverdueDebts(ds, today) ==
    LET overdue(d) == d.dueDate # 0 /\ d.dueDate < today /\ d.status # "paid"
    IN SelectSeq(ds, overdue)

\* a call of useDebtsStore.getOverdueDebts; the list it returns is kept in
\* the call record
GetOverdueDebtsCall ==
    /\ call' = [op |-> "getOverdueDebts", productId |-> 0,
                result |-> getOverdueDebts(debts, now)]
    /\ toast' = "none"
    /\ UNCHANGED <<products, productsCreated, cart, sales, movements, debts, now,
                   currentUser, isAuthenticated, currentPage>>

\* -------------------------------------------------------------- persistence
\* Each store is written to its localStorage key as JSON after every change
\* and read back with JSON.parse when the application loads.  A Date is
\* written as its ISO string and no reviver turns the string back into a
\* Date.  The model writes the Date of month t as t and the string of that
\* date as MaxMonth + 1 + t, a value no Date of the model has; a field that
\* is not set (0) is left out of the JSON and reads back as not set.
IsDate(value) == value \in 1 .. MaxMonth

toISOString(date) == MaxMonth + 1 + date

\* JSON.parse(JSON.stringify(value)) of a field that holds a Date, a string
\* or nothing
rehydrateDate(value) == IF IsDate(value) THEN toISOString(value) ELSE value

\* the sales store: sales and cart
rehydrateSales(ss) ==
    [i \in 1 .. Len(ss) |-> [ss[i] EXCEPT !.createdAt = rehydrateDate(@)]]

\* the debts store
rehydrateDebts(ds) ==
    [i \in 1 .. Len(ds) |->
        [ds[i] EXCEPT !.createdAt = rehydrateDate(@),
                      !.dueDate = rehydrateDate(@),
                      !.payments = [k \in 1 .. Len(@) |->
                                       [@[k] EXCEPT !.paymentDate = rehydrateDate(@)]]]]

\* the application is loaded again: every persisted store takes the value
\* read from its blob.  The product records of the model hold numbers only.
\* The page state of App is not persisted and starts at the dashboard.
Reload ==
    /\ call' = [op |-> "reload", productId |-> 0]
    /\ sales' = rehydrateSales(sales)
    /\ debts' = rehydrateDebts(debts)
    /\ currentPage' = "dashboard"
    /\ toast' = "none"
    /\ UNCHANGED <<products, productsCreated, cart, movements, now,
                   currentUser, isAuthenticated>>

\* -------------------------------------------------------------- Debts page
\* the save button of the payment dialog; filled is FALSE for an empty
\* amount field.  The handler calls no store.
handlePayment(paymentAmount, filled) ==
    /\ call' = [op |-> "handlePayment", productId |-> 0]
    /\ IF ~filled \/ paymentAmount <= 0
       THEN toast' = "Veuillez entrer un montant valide"
       ELSE toast' = "Paiement enregistre avec succes"
    /\ UNCHANGED <<products, productsCreated, cart, sales, movements, debts, now,
                   currentUser, isAuthenticated, currentPage>>

\* -------------------------------------------------------------- POS page
Subtotal == getCartTotal(cart)
vatAmountOf(subtotal) == (subtotal * vatRate) \div 100
VatAmount == vatAmountOf(Subtotal)
Total == Subtotal + VatAmount

\* the guards of the POS handlers
OutOfStock(product) == product.quantity <= 0
LineHoldsStock_strict(existingItem, product) == existingItem.quantity > product.quantity
LineHoldsStock(existingItem, product) == existingItem.quantity >= product.quantity
ExceedsStock(newQuantity, product) == newQuantity > product.quantity
EmptyCart_never(c) == FALSE
EmptyCart(c) == Len(c) = 0
InsufficientPayment_cashOnly(paid, total, paymentMethod) == paid < total /\ paymentMethod = "cash"
InsufficientPayment(paid, total, paymentMethod) == paid < total /\ paymentMethod # "mixed"

addProductToCart(pid) ==
    LET k == FindProduct(products, pid)
        e == FindItem(cart, pid)
    IN  /\ k # 0
        /\ call' = [op |-> "addProductToCart", productId |-> pid]
        /\ IF OutOfStock(products[k])
           THEN /\ toast' = "pos.insufficientStock"
                /\ UNCHANGED cart
           ELSE IF e # 0 /\ LineHoldsStock(cart[e], products[k])
           THEN /\ toast' = "pos.insufficientStock"
                /\ UNCHANGED cart
           ELSE /\ cart' = addToCart(cart, [productId |-> pid, quantity |-> 1,
                                            unitPrice |-> products[k].salePrice,
                                            total |-> products[k].salePrice])
                /\ toast' = "ajoute au panier"
        /\ UNCHANGED <<products, productsCreated, sales, movements, debts, now,
                       currentUser, isAuthenticated, currentPage>>

updateQuantity(pid, delta) ==
    LET e == FindItem(cart, pid)
        k == FindProduct(products, pid)
        newQuantity == cart[e].quantity + delta
    IN  /\ call' = [op |-> "updateQuantity", productId |-> pid]
        /\ IF e = 0 \/ k = 0
           THEN /\ toast' = "none"
                /\ UNCHANGED cart
           ELSE IF newQuantity <= 0
           THEN /\ cart' = removeFromCart(cart, pid)
                /\ toast' = "none"
           ELSE IF ExceedsStock(newQuantity, products[k])
           THEN /\ toast' = "pos.insufficientStock"
                /\ UNCHANGED cart
           ELSE /\ cart' = updateCartItem(cart, pid, newQuantity)
                /\ toast' = "none"
        /\ UNCHANGED <<products, productsCreated, sales, movements, debts, now,
                       currentUser, isAuthenticated, currentPage>>

\* the trash button of a cart line
removeLine(pid) ==
    /\ \E i \in 1 .. Len(cart) : cart[i].productId = pid
    /\ call' = [op |-> "removeFromCart", productId |-> pid]
    /\ cart' = removeFromCart(cart, pid)
    /\ toast' = "none"
    /\ UNCHANGED <<products, productsCreated, sales, movements, debts, now,
                   currentUser, isAuthenticated, currentPage>>

clearCart ==
    /\ call' = [op |-> "clearCart", productId |-> 0]
    /\ cart' = <<>>
    /\ toast' = "none"
    /\ UNCHANGED <<products, productsCreated, sales, movements, debts, now,
                   currentUser, isAuthenticated, currentPage>>

\* completeSale that leaves the lines in the cart after recording the sale
completeSaleWithin_keepCart(cap, paymentMethod, paid) ==
    /\ call' = [op |-> "completeSale", productId |-> 0]
    /\ IF EmptyCart(cart)
       THEN /\ toast' = "Le panier est vide"
            /\ UNCHANGED <<products, cart, sales>>
       ELSE IF InsufficientPayment(paid, Total, paymentMethod)
       THEN /\ toast' = "Le montant paye est insuffisant"
            /\ UNCHANGED <<products, cart, sales>>
       ELSE /\ Len(sales) < cap
            /\ addSale([items |-> cart,
                        subtotal |-> Subtotal,
                        vatAmount |-> VatAmount,
                        total |-> Total,
                        paymentMethod |-> paymentMethod,
                        paidAmount |-> paid,
                        change |-> Max(0, paid - Total),
                        status |-> "completed"])
            /\ UNCHANGED cart
            /\ toast' = "pos.saleCompleted"
    /\ UNCHANGED <<productsCreated, movements, debts, now,
                   currentUser, isAuthenticated, currentPage>>

\* cap bounds the number of sales the specification records
\* completeSale that also logs an outgoing movement for the first line sold
completeSaleWithin_logged(cap, paymentMethod, paid) ==
    /\ call' = [op |-> "completeSale", productId |-> 0]
    /\ IF EmptyCart(cart)
       THEN /\ toast' = "Le panier est vide"
            /\ UNCHANGED <<products, cart, sales, movements>>
       ELSE IF InsufficientPayment(paid, Total, paymentMethod)
       THEN /\ toast' = "Le montant paye est insuffisant"
            /\ UNCHANGED <<products, cart, sales, movements>>
       ELSE /\ Len(sales) < cap
            /\ addSale([items |-> cart,
                        subtotal |-> Subtotal,
                        vatAmount |-> VatAmount,
                        total |-> Total,
                        paymentMethod |-> paymentMethod,
                        paidAmount |-> paid,
                        change |-> Max(0, paid - Total),
                        status |-> "completed"])
            /\ movements' = addMovement(movements,
                                        [productId |-> cart[1].productId, type |-> "out",
                                         quantity |-> cart[1].quantity], now)
            /\ cart' = <<>>
            /\ toast' = "pos.saleCompleted"
    /\ UNCHANGED <<productsCreated, debts, now,
                   currentUser, isAuthenticated, currentPage>>

completeSaleWithin(cap, paymentMethod, paid) ==
    /\ call' = [op |-> "completeSale", productId |-> 0]
    /\ IF EmptyCart(cart)
       THEN /\ toast' = "Le panier est vide"
            /\ UNCHANGED <<products, cart, sales>>
       ELSE IF InsufficientPayment(paid, Total, paymentMethod)
       THEN /\ toast' = "Le montant paye est insuffisant"
            /\ UNCHANGED <<products, cart, sales>>
       ELSE /\ Len(sales) < cap
            /\ addSale([items |-> cart,
                        subtotal |-> Subtotal,
                        vatAmount |-> VatAmount,
                        total |-> Total,
                        paymentMethod |-> paymentMethod,
                        paidAmount |-> paid,
                        change |-> Max(0, paid - Total),
                        status |-> "completed"])
            /\ cart' = <<>>
            /\ toast' = "pos.saleCompleted"
    /\ UNCHANGED <<productsCreated, movements, debts, now,
                   currentUser, isAuthenticated, currentPage>>

completeSale(paymentMethod, paid) == completeSaleWithin(MaxSales, paymentMethod, paid)

\* ----------------------------------------------------------- Reports page
\* the cancel button of the sale details dialog
handleCancelSale(selectedSale) ==
    /\ \E i \in 1 .. Len(sales) : sales[i].id = selectedSale
    /\ call' = [op |-> "handleCancelSale", productId |-> 0]
    /\ sales' = cancelSale(sales, selectedSale)
    /\ toast' = "Vente annulee"
    /\ UNCHANGED <<products, productsCreated, cart, movements, debts, now,
                   currentUser, isAuthenticated, currentPage>>

\* ------------------------------------------------------------- Stock page
\* cap bounds the number of movements the specification records
handleAdjustmentWithin(cap, selectedProduct, adjustmentType, quantity, filled) ==
    LET k == FindProduct(products, selectedProduct)
        newQuantity == IF adjustmentType = "in"
                       THEN products[k].quantity + quantity
                       ELSE products[k].quantity - quantity
    IN  /\ call' = [op |-> "handleAdjustment", productId |-> selectedProduct]
        /\ IF ~filled
           THEN /\ toast' = "Veuillez remplir tous les champs"
                /\ UNCHANGED <<products, movements>>
           ELSE IF k = 0
           THEN /\ toast' = "none"
                /\ UNCHANGED <<products, movements>>
           ELSE IF newQuantity < 0
           THEN /\ toast' = "Quantite insuffisante"
                /\ UNCHANGED <<products, movements>>
           ELSE /\ newQuantity <= MaxQty
                /\ Len(movements) < cap
                /\ products' = updateProduct(products, selectedProduct,
                                             [quantity |-> newQuantity])
                /\ movements' = addMovement(movements,
                                    [productId |-> selectedProduct,
                                     type |-> adjustmentType,
                                     quantity |-> quantity],
                                    now)
                /\ toast' = "Ajustement de stock effectue"
        /\ UNCHANGED <<productsCreated, cart, sales, debts, now,
                       currentUser, isAuthenticated, currentPage>>

handleAdjustment(selectedProduct, adjustmentType, quantity, filled) ==
    handleAdjustmentWithin(MaxMovements, selectedProduct, adjustmentType, quantity, filled)

\* the two alert lists of the stock page
lowStockProducts(ps) ==
    LET low(p) == p.quantity <= p.minQuantity /\ p.quantity > 0 IN SelectSeq(ps, low)

outOfStockProducts(ps) ==
    LET out(p) == p.quantity = 0 IN SelectSeq(ps, out)

\* ---------------------------------------------------------- Products page
\* selectedProduct = 0 stands for the add dialog, an id for the edit dialog
\* minQuantity is the form field as a number; an empty or zero field reads as
\* the default threshold
handleSave(selectedProduct, salePrice, quantity, minQuantity, filled) ==
    LET productData == [salePrice |-> salePrice, quantity |-> quantity,
                        minQuantity |-> IF minQuantity = 0 THEN defaultMinQuantity
                                        ELSE minQuantity] IN
    /\ call' = [op |-> "handleSave", productId |-> selectedProduct]
    /\ IF ~filled
       THEN /\ toast' = "Veuillez remplir tous les champs obligatoires"
            /\ UNCHANGED <<products, productsCreated>>
       ELSE IF selectedProduct # 0
       THEN /\ products' = updateProduct(products, selectedProduct, productData)
            /\ toast' = "products.productUpdated"
            /\ UNCHANGED productsCreated
       ELSE /\ productsCreated < Cardinality(ProductIds)
            /\ products' = addProduct(products, productsCreated + 1, productData)
            /\ productsCreated' = productsCreated + 1
            /\ toast' = "products.productCreated"
    /\ UNCHANGED <<cart, sales, movements, debts, now,
                   currentUser, isAuthenticated, currentPage>>

handleDelete(selectedProduct) ==
    /\ call' = [op |-> "handleDelete", productId |-> selectedProduct]
    /\ products' = deleteProduct(products, selectedProduct)
    /\ toast' = "products.productDeleted"
    /\ UNCHANGED <<productsCreated, cart, sales, movements, debts, now,
                   currentUser, isAuthenticated, currentPage>>

\* ------------------------------------------------------------ auth store
\* mockUsers: the role of the user with this email, "none" when
\* mockUsers.find finds none
Emails == {"admin@businesspro.com", "seller@businesspro.com", "manager@businesspro.com",
           "guest@businesspro.com"}
Passwords == {"password", "secret"}

RoleOf(email) ==
    CASE email = "admin@businesspro.com" -> "admin"
      [] email = "seller@businesspro.com" -> "seller"
      [] email = "manager@businesspro.com" -> "manager"
      [] OTHER -> "none"

\* login returns true and signs the user in, or returns false
loginSucceeds(email, password) == RoleOf(email) # "none" /\ password = "password"

\* ---------------------------------------------------------------- App shell
PageType == {"dashboard", "pos", "products", "stock", "suppliers", "customers", "sales",
             "invoices", "reports", "settings", "users", "activities", "debts"}

\* the ids of the sidebar entries shown to a user
filteredNavItems(user) ==
    CASE user = "none" -> {}
      [] user = "admin" -> PageType
      [] user = "seller" -> {"dashboard", "pos", "products", "customers", "sales",
                             "invoices", "debts"}
      [] user = "manager" -> {"dashboard", "pos", "products", "stock", "suppliers",
                              "customers", "sales", "invoices", "reports", "debts",
                              "activities"}
      [] OTHER -> {}

\* the stores and the page state as they are with this user signed in
SignedIn(user) ==
    /\ currentUser = user
    /\ isAuthenticated = TRUE
    /\ currentPage = "dashboard"

\* the submit button of the login page, shown while nobody is signed in
handleSubmit(email, password) ==
    /\ ~isAuthenticated
    /\ call' = [op |-> "login", productId |-> 0]
    /\ IF loginSucceeds(email, password)
       THEN /\ currentUser' = RoleOf(email)
            /\ isAuthenticated' = TRUE
            /\ toast' = "auth.loginSuccess"
       ELSE /\ toast' = "auth.invalidCredentials"
            /\ UNCHANGED <<currentUser, isAuthenticated>>
    /\ UNCHANGED <<products, productsCreated, cart, sales, movements, debts, now,
                   currentPage>>

\* a click on one of the sidebar entries
navigate(item) ==
    /\ isAuthenticated
    /\ item \in filteredNavItems(currentUser)
    /\ call' = [op |-> "navigate", productId |-> 0]
    /\ currentPage' = item
    /\ toast' = "none"
    /\ UNCHANGED <<products, productsCreated, cart, sales, movements, debts, now,
                   currentUser, isAuthenticated>>

\* the settings entry of the user menu
openSettings ==
    /\ isAuthenticated
    /\ call' = [op |-> "userMenuSettings", productId |-> 0]
    /\ currentPage' = "settings"
    /\ toast' = "none"
    /\ UNCHANGED <<products, productsCreated, cart, sales, movements, debts, now,
                   currentUser, isAuthenticated>>

\* the logout entry of the user menu; App keeps its page state while the
\* login page is shown
logout ==
    /\ isAuthenticated
    /\ call' = [op |-> "logout", productId |-> 0]
    /\ currentUser' = "none"
    /\ isAuthenticated' = FALSE
    /\ toast' = "none"
    /\ UNCHANGED <<products, productsCreated, cart, sales, movements, debts, now,
                   currentPage>>

\* ------------------------------------------------------------ specification
InStore(pid) == \E i \in 1 .. Len(products) : products[i].id = pid

Init ==
    /\ products = <<>>
    /\ productsCreated = 0
    /\ cart = <<>>
    /\ sales = <<>>
    /\ movements = <<>>
    /\ debts = <<>>
    /\ now = 1
    /\ toast = "none"
    /\ call = [op |-> "none", productId |-> 0]
    /\ SignedIn("admin")

InitStocked ==
    /\ \E q1, q2 \in 0 .. MaxQty :
          products = <<[id |-> 1, salePrice |-> 10, quantity |-> q1, minQuantity |-> 1],
                       [id |-> 2, salePrice |-> 5, quantity |-> q2, minQuantity |-> 1]>>
    /\ productsCreated = 2
    /\ cart = <<>>
    /\ sales = <<>>
    /\ movements = <<>>
    /\ debts = <<>>
    /\ now = 1
    /\ toast = "none"
    /\ call = [op |-> "none", productId |-> 0]
    /\ SignedIn("admin")

CartStep ==
    \/ \E pid \in ProductIds : addProductToCart(pid)
    \/ \E pid \in ProductIds, delta \in {-1, 1} : updateQuantity(pid, delta)
    \/ \E pid \in ProductIds : removeLine(pid)
    \/ clearCart

CommitStep ==
    \E paymentMethod \in PaymentMethods, paid \in PaidAmounts :
        completeSale(paymentMethod, paid)

AdjustStep ==
    \E pid \in ProductIds, type \in {"in", "out"},
       quantity \in AdjustmentQuantities, filled \in BOOLEAN :
        handleAdjustment(pid, type, quantity, filled)

ProductFormStep ==
    \/ \E salePrice \in Prices, quantity \in FormQuantities, filled \in BOOLEAN :
          \/ handleSave(0, salePrice, quantity, 1, filled)
          \/ \E pid \in ProductIds : InStore(pid) /\ handleSave(pid, salePrice, quantity, 1, filled)
    \/ \E pid \in ProductIds : InStore(pid) /\ handleDelete(pid)

\* the whole application, from the empty stores; the properties below are
\* checked under the narrower specifications that follow, each of which keeps
\* the handlers its properties are about
Next ==
    \/ CartStep
    \/ CommitStep
    \/ AdjustStep
    \/ ProductFormStep

Spec == Init /\ [][Next]_vars

\* the POS page with the product form: cart editing while products are
\* created, edited and deleted
NextCart ==
    \/ CartStep
    \/ ProductFormStep

SpecCart == Init /\ [][NextCart]_vars

\* cart operations, stock adjustments and sale commits over a stocked store
NextLedger ==
    \/ CartStep
    \/ AdjustStep
    \/ CommitStep

SpecLedger == InitStocked /\ [][NextLedger]_vars

\* the POS page alone over a stocked store
NextCommit ==
    \/ CartStep
    \/ CommitStep

SpecCommit == InitStocked /\ [][NextCommit]_vars

\* the clock reaching the next month
Tick ==
    /\ now < MaxMonth
    /\ now' = now + 1
    /\ call' = [op |-> "tick", productId |-> 0]
    /\ toast' = "none"
    /\ UNCHANGED <<products, productsCreated, cart, sales, movements, debts,
                   currentUser, isAuthenticated, currentPage>>

SalesCommitStep ==
    \E paymentMethod \in {"cash", "mixed"}, paid \in PaidAmounts :
        completeSaleWithin(MaxInvoices, paymentMethod, paid)

CancelStep ==
    \E id \in 1 .. MaxInvoices : handleCancelSale(id)

\* the POS page and the sales page over a stocked store, across months
NextSales ==
    \/ CartStep
    \/ SalesCommitStep
    \/ CancelStep
    \/ Tick

\* a store holding one product, fully stocked
InitSales ==
    /\ products = <<[id |-> 1, salePrice |-> 10, quantity |-> MaxQty, minQuantity |-> 1]>>
    /\ productsCreated = 1
    /\ cart = <<>>
    /\ sales = <<>>
    /\ movements = <<>>
    /\ debts = <<>>
    /\ now = 1
    /\ toast = "none"
    /\ call = [op |-> "none", productId |-> 0]
    /\ SignedIn("admin")

SpecSales == InitSales /\ [][NextSales]_vars

StockAdjustStep ==
    \E pid \in ProductIds, type \in {"in", "out"},
       quantity \in AdjustmentQuantities, filled \in BOOLEAN :
        handleAdjustmentWithin(MaxLog, pid, type, quantity, filled)

\* the stock page over the one-product store, with the product form's edit
\* and delete of that product
NextStock ==
    \/ StockAdjustStep
    \/ \E salePrice \in Prices, quantity \in FormQuantities :
          InStore(1) /\ handleSave(1, salePrice, quantity, 1, TRUE)
    \/ InStore(1) /\ handleDelete(1)

SpecStock == InitSales /\ [][NextStock]_vars

\* the debts store driven through its two writers, and the payment dialog
NextDebts ==
    \/ \E debt \in DebtInputs : AddDebtCall(debt)
    \/ \E debtId \in 1 .. MaxDebts, amount \in PaymentValues : AddPaymentCall(debtId, amount)
    \/ \E paymentAmount \in PaymentValues, filled \in BOOLEAN :
          handlePayment(paymentAmount, filled)

SpecDebts == Init /\ [][NextDebts]_vars

\* the debts store with due dates and the clock
NextOverdue ==
    \/ \E debt \in DatedDebtInputs : AddDebtCall(debt)
    \/ \E debtId \in 1 .. MaxDebts, amount \in PaymentValues : AddPaymentCall(debtId, amount)
    \/ GetOverdueDebtsCall
    \/ Tick

SpecOverdue == Init /\ [][NextOverdue]_vars

\* every page that writes a store, over the one-product store: the POS page,
\* the sales page, the adjustment dialog and the product form (edit, delete)
NextArchive ==
    \/ CartStep
    \/ completeSaleWithin(MaxInvoices, "cash", 40)
    \/ CancelStep
    \/ \E type \in {"in", "out"} : handleAdjustment(1, type, 1, TRUE)
    \/ \E quantity \in FormQuantities : InStore(1) /\ handleSave(1, 10, quantity, 1, TRUE)
    \/ InStore(1) /\ handleDelete(1)

SpecArchive == InitSales /\ [][NextArchive]_vars

\* the product form with its minimum-quantity field, from the empty store
ShelfStep ==
    \E salePrice \in Prices, quantity \in FormQuantities, minQuantity \in MinQuantities :
        \/ handleSave(0, salePrice, quantity, minQuantity, TRUE)
        \/ \E pid \in ProductIds :
              InStore(pid) /\ handleSave(pid, salePrice, quantity, minQuantity, TRUE)

NextShelf ==
    \/ ShelfStep
    \/ \E pid \in ProductIds : InStore(pid) /\ handleDelete(pid)

SpecShelf == Init /\ [][NextShelf]_vars

\* the POS page, the product delete, the sales page and the debts store
NextLookup ==
    \/ CartStep
    \/ completeSaleWithin(MaxInvoices, "cash", 40)
    \/ InStore(1) /\ handleDelete(1)
    \/ CancelStep
    \/ \E debt \in DebtInputs : debt.amount = debt.remaining /\ AddDebtCall(debt)
    \/ \E debtId \in 1 .. MaxDebts : AddPaymentCall(debtId, 5)

SpecLookup == InitSales /\ [][NextLookup]_vars

\* sales and debts recorded, then the application loaded again
NextReload ==
    \/ CartStep
    \/ completeSaleWithin(MaxInvoices, "cash", 40)
    \/ \E debt \in DatedDebtInputs : AddDebtCall(debt)
    \/ \E debtId \in 1 .. MaxDebts : AddPaymentCall(debtId, 5)
    \/ Reload

SpecReload == InitSales /\ [][NextReload]_vars

\* the application as it starts with empty storage: nobody is signed in
InitSignedOut ==
    /\ products = <<>>
    /\ productsCreated = 0
    /\ cart = <<>>
    /\ sales = <<>>
    /\ movements = <<>>
    /\ debts = <<>>
    /\ now = 1
    /\ toast = "none"
    /\ call = [op |-> "none", productId |-> 0]
    /\ currentUser = "none"
    /\ isAuthenticated = FALSE
    /\ currentPage = "dashboard"

\* the login page, the sidebar, the user menu and the reload of the page
NextShell ==
    \/ \E email \in Emails, password \in Passwords : handleSubmit(email, password)
    \/ \E item \in PageType : navigate(item)
    \/ openSettings
    \/ logout
    \/ Reload

SpecShell == InitSignedOut /\ [][NextShell]_vars

\* the POS page over a stocked store that has a movement log and debts
NextFrame ==
    \/ CartStep
    \/ completeSaleWithin(MaxSales, "cash", 40)
    \/ handleAdjustment(2, "in", 1, TRUE)
    \/ \E debt \in DebtInputs :
          debts = <<>> /\ debt.amount = 10 /\ debt.remaining = 10 /\ AddDebtCall(debt)

SpecFrame == InitStocked /\ [][NextFrame]_vars

\* ================================================================== claims
HasLine(c, pid) == \E i \in 1 .. Len(c) : c[i].productId = pid
LineOf(c, pid) == c[CHOOSE i \in 1 .. Len(c) : c[i].productId = pid]
CartQty(c, pid) == IF HasLine(c, pid) THEN LineOf(c, pid).quantity ELSE 0
ProductOf(ps, pid) == ps[CHOOSE i \in 1 .. Len(ps) : ps[i].id = pid]
OnHand(ps, pid) == ProductOf(ps, pid).quantity
Committed == call'.op = "completeSale" /\ toast' = "pos.saleCompleted"

RECURSIVE SumOfLineTotals(_)
SumOfLineTotals(items) ==
    IF items = <<>> THEN 0 ELSE Head(items).total + SumOfLineTotals(Tail(items))

\* C1: in every state reached by cart operations, stock adjustments and sale
\* commits from products with non-negative quantities, every product's
\* quantity is >= 0.
C1_QuantityNonNegative ==
    \A i \in 1 .. Len(products) : products[i].quantity >= 0

\* C2: a commit attempted while some cart line asks for more than its product
\* has on hand records no sale and changes no product quantity.
C2_CommitAllOrNothing ==
    [][ (call'.op = "completeSale"
         /\ \E i \in 1 .. Len(cart) :
               /\ \E k \in 1 .. Len(products) : products[k].id = cart[i].productId
               /\ cart[i].quantity > OnHand(products, cart[i].productId))
        => (sales' = sales /\ products' = products) ]_vars

\* C3: a commit attempted on an empty cart fails with the empty-cart message
\* and leaves the sales, the products, the cart and the next invoice number
\* as they were.
C3_EmptyCartCommitFails ==
    [][ (call'.op = "completeSale" /\ cart = <<>>)
        => (/\ toast' = "Le panier est vide"
            /\ sales' = sales
            /\ products' = products
            /\ cart' = cart
            /\ generateInvoiceNumber(sales', now') = generateInvoiceNumber(sales, now)) ]_vars

\* a commit has just been refused on an empty cart, after an earlier sale
C3_Witness ==
    /\ call.op = "completeSale"
    /\ toast = "Le panier est vide"
    /\ cart = <<>>
    /\ sales # <<>>

\* C4: with a payment method other than 'mixed', a commit whose paid amount is
\* below the total of the cart is refused and changes neither sales, products
\* nor cart; and every recorded cash, card or transfer sale has
\* paidAmount >= total.  (Second conjunct: a commit step on a non-empty cart
\* is either that refusal, or no commit with such a method and amount.)
C4_PaymentCoversTotal ==
    /\ [](\A i \in 1 .. Len(sales) :
            sales[i].paymentMethod # "mixed" => sales[i].paidAmount >= sales[i].total)
    /\ [][ (call'.op = "completeSale" /\ cart # <<>>)
           => \/ /\ toast' = "Le montant paye est insuffisant"
                 /\ UNCHANGED <<sales, products, cart>>
              \/ LET total == Total IN
                 \A paid \in {a \in PaidAmounts : a < total} :
                    \A m \in PaymentMethods \ {"mixed"} : ~completeSale(m, paid) ]_vars

\* a cash, card or transfer commit has just been refused for its amount while
\* a 'mixed' sale paid below its total is on record
C4_Witness ==
    /\ call.op = "completeSale"
    /\ toast = "Le montant paye est insuffisant"
    /\ cart # <<>>
    /\ \E i \in 1 .. Len(sales) :
          sales[i].paymentMethod = "mixed" /\ sales[i].paidAmount < sales[i].total

\* C5: a successful commit puts exactly one new sale, with status completed,
\* in front of the sales; its subtotal is the sum of its line totals, its VAT
\* is subtotal * vatRate / 100 and its total is subtotal + VAT; each product
\* loses exactly the quantity of its cart line and the others keep theirs.
C5_CommitRecordsSaleAndDebitsStock ==
    [][ Committed
        => (/\ Len(sales') = Len(sales) + 1
            /\ Tail(sales') = sales
            /\ Head(sales').status = "completed"
            /\ Head(sales').items = cart
            /\ Head(sales').subtotal = SumOfLineTotals(cart)
            /\ Head(sales').vatAmount * 100 = Head(sales').subtotal * vatRate
            /\ Head(sales').total = Head(sales').subtotal + Head(sales').vatAmount
            /\ Len(products') = Len(products)
            /\ \A k \in 1 .. Len(products) :
                  /\ products'[k].id = products[k].id
                  /\ products'[k].quantity =
                        products[k].quantity - CartQty(cart, products[k].id)) ]_vars

\* the commit of lines (product 1, 2, 10) and (product 2, 1, 5) has just been
\* recorded as 25 / 5 / 30, product 1 is at 0 and product 2 kept the rest
C5_Witness ==
    /\ call.op = "completeSale"
    /\ toast = "pos.saleCompleted"
    /\ sales # <<>>
    /\ Len(Head(sales).items) = 2
    /\ CartQty(Head(sales).items, 1) = 2
    /\ CartQty(Head(sales).items, 2) = 1
    /\ Head(sales).subtotal = 25
    /\ Head(sales).vatAmount = 5
    /\ Head(sales).total = 30
    /\ OnHand(products, 1) = 0
    /\ OnHand(products, 2) = 1

\* C6: adding a product whose cart quantity plus one exceeds its quantity on
\* hand is refused with the insufficient-stock message and leaves the cart
\* (lines, quantities, totals) as it was.
C6_AddBeyondStockRejected ==
    [][ \A pid \in ProductIds :
          (/\ call'.op = "addProductToCart"
           /\ call'.productId = pid
           /\ InStore(pid)
           /\ CartQty(cart, pid) + 1 > OnHand(products, pid))
          => (cart' = cart /\ toast' = "pos.insufficientStock") ]_vars

\* an add has just been refused for a product whose cart line already holds
\* its whole stock, while the other product is out of stock
C6_Witness ==
    /\ call.op = "addProductToCart"
    /\ toast = "pos.insufficientStock"
    /\ InStore(call.productId)
    /\ HasLine(cart, call.productId)
    /\ CartQty(cart, call.productId) = OnHand(products, call.productId)
    /\ \E k \in 1 .. Len(products) : products[k].quantity = 0

\* C7: the cart never holds two lines of the same product, and every line's
\* total is its quantity times its unit price.
C7_OneLinePerProductAndTotals ==
    /\ \A i, j \in 1 .. Len(cart) : i # j => cart[i].productId # cart[j].productId
    /\ \A i \in 1 .. Len(cart) : cart[i].total = cart[i].quantity * cart[i].unitPrice

\* an add has just merged into the line of one of two products in the cart
C7_Witness ==
    /\ call.op = "addProductToCart"
    /\ toast = "ajoute au panier"
    /\ Len(cart) = 2
    /\ CartQty(cart, call.productId) >= 2

\* C8: an accepted add of a product that already has a line raises that
\* line's quantity by the added quantity, keeps the line's unit price and
\* recomputes its total from that unit price, whatever the product's sale
\* price is now.
C8_MergeKeepsUnitPrice ==
    [][ \A pid \in ProductIds :
          (/\ call'.op = "addProductToCart"
           /\ call'.productId = pid
           /\ toast' = "ajoute au panier"
           /\ HasLine(cart, pid))
          => (/\ HasLine(cart', pid)
              /\ Len(cart') = Len(cart)
              /\ LineOf(cart', pid).quantity = LineOf(cart, pid).quantity + 1
              /\ LineOf(cart', pid).unitPrice = LineOf(cart, pid).unitPrice
              /\ LineOf(cart', pid).total =
                    (LineOf(cart, pid).quantity + 1) * LineOf(cart, pid).unitPrice) ]_vars

\* an add has just merged into a line whose unit price is no longer the
\* product's sale price
C8_Witness ==
    /\ call.op = "addProductToCart"
    /\ toast = "ajoute au panier"
    /\ InStore(call.productId)
    /\ CartQty(cart, call.productId) >= 2
    /\ LineOf(cart, call.productId).unitPrice # ProductOf(products, call.productId).salePrice

\* the outcome the claim gives updateLine for a line of product pid and a
\* change of delta
UpdateLineOutcome(pid, delta) ==
    LET newQty == LineOf(cart, pid).quantity + delta IN
    IF newQty <= 0
    THEN cart' = removeFromCart(cart, pid) /\ ~HasLine(cart', pid)
    ELSE IF InStore(pid) /\ newQty > OnHand(products, pid)
    THEN cart' = cart /\ toast' = "pos.insufficientStock"
    ELSE /\ HasLine(cart', pid)
         /\ LineOf(cart', pid).quantity = newQty
         /\ LineOf(cart', pid).total = newQty * LineOf(cart, pid).unitPrice
         /\ LineOf(cart', pid).unitPrice = LineOf(cart, pid).unitPrice
         /\ \A q \in ProductIds \ {pid} :
               /\ HasLine(cart', q) <=> HasLine(cart, q)
               /\ HasLine(cart, q) => LineOf(cart', q) = LineOf(cart, q)

NoEmptyLine == \A i \in 1 .. Len(cart) : cart[i].quantity >= 1

QuantityChanged ==
    \E i \in 1 .. Len(products), j \in 1 .. Len(products') :
        products[i].id = products'[j].id /\ products[i].quantity # products'[j].quantity

C10_QuantityChangesOnlyByCommitOrAdjustment ==
    [][ QuantityChanged => call'.op \in {"completeSale", "handleAdjustment"} ]_vars

\* C11: clearCart yields the empty cart from any cart; a successful commit
\* starts from a populated cart and leaves the empty cart; and a commit
\* attempted right after a successful commit, with nothing added in between,
\* is refused and records no sale.
C11_CartLifecycle ==
    /\ [](call.op = "completeSale" /\ toast = "pos.saleCompleted" => cart = <<>>)
    /\ [][ /\ call'.op = "clearCart" => cart' = <<>>
           /\ Committed => (cart # <<>> /\ cart' = <<>> /\ Head(sales').items = cart)
           /\ (call.op = "completeSale" /\ toast = "pos.saleCompleted"
                 /\ call'.op = "completeSale")
              => (toast' = "Le panier est vide" /\ sales' = sales /\ products' = products)
         ]_vars

\* a commit has just been refused on the cart a recorded sale of two lines
\* left empty
C11_Witness ==
    /\ call.op = "completeSale"
    /\ toast = "Le panier est vide"
    /\ cart = <<>>
    /\ sales # <<>>
    /\ Len(Head(sales).items) = 2

\* a sale with its status masked: two sales differ at most in status when
\* their masked records are equal
Frozen(sale) == [sale EXCEPT !.status = "masked"]

\* C12: every step keeps every sale already in the list (sales are newest
\* first, so an existing sale keeps its position from the end) with its id,
\* invoice number, line items, subtotal, VAT, total, payment fields and
\* creation time; its status either stays or becomes 'cancelled', and a
\* cancelled sale stays cancelled.
C12_SalesImmutableButStatus ==
    [][ \/ sales' = sales
        \/ /\ Len(sales') >= Len(sales)
           /\ \A i \in 1 .. Len(sales) :
                 LET old == sales[i]
                     new == sales'[i + Len(sales') - Len(sales)]
                 IN  /\ Frozen(new) = Frozen(old)
                     /\ new.status \in {old.status, "cancelled"}
                     /\ old.status = "cancelled" => new.status = "cancelled" ]_vars

\* the product of two recorded sales has just been deleted, after a stock
\* adjustment; the older sale is cancelled and the newer one completed
C12_Witness ==
    /\ call.op = "handleDelete"
    /\ products = <<>>
    /\ movements # <<>>
    /\ Len(sales) = 2
    /\ sales[2].status = "cancelled"
    /\ sales[1].status = "completed"
    /\ sales[1].items # <<>>

\* C13: cancelling a completed sale sets that sale's status to 'cancelled',
\* keeps its other fields, every other sale and the number of sales, and
\* leaves every product (so the sale's stock debit stays), the cart and the
\* movement log as they were.
C13_CancelOnlySetsStatus ==
    [][ call'.op = "handleCancelSale"
        => \A id \in 1 .. MaxInvoices :
             (/\ handleCancelSale(id)
              /\ \E i \in 1 .. Len(sales) :
                    sales[i].id = id /\ sales[i].status = "completed")
             => (/\ Len(sales') = Len(sales)
                 /\ \A i \in 1 .. Len(sales) :
                       sales'[i] = IF sales[i].id = id
                                   THEN [sales[i] EXCEPT !.status = "cancelled"]
                                   ELSE sales[i]
                 /\ products' = products
                 /\ cart' = cart
                 /\ movements' = movements) ]_vars

\* the newer of two one-unit sales has just been cancelled: the older one is
\* still completed and the product still has none of its two units back
C13_Witness ==
    /\ call.op = "handleCancelSale"
    /\ Len(sales) = 2
    /\ sales[1].status = "cancelled"
    /\ sales[2].status = "completed"
    /\ OnHand(products, 1) = MaxQty - sales[1].items[1].quantity - sales[2].items[1].quantity

\* the number a string of decimal digits reads as
RECURSIVE NumberOf(_)
NumberOf(digits) ==
    IF digits = <<>> THEN 0
    ELSE 10 * NumberOf(SubSeq(digits, 1, Len(digits) - 1)) + digits[Len(digits)]

\* the k-th sale created, counted from the oldest (sales are newest first)
KthSale(k) == sales[Len(sales) - k + 1]

\* C14: the sequence part of the invoice number of the k-th sale created
\* reads k, whatever months the sales were created in and whichever of them
\* are cancelled, so it is strictly increasing over successive commits.
C14_InvoiceSequenceCountsAllSales ==
    /\ \A k \in 1 .. Len(sales) : NumberOf(KthSale(k).invoiceNumber.sequence) = k
    /\ \A j, k \in 1 .. Len(sales) :
          j < k => NumberOf(KthSale(j).invoiceNumber.sequence)
                      < NumberOf(KthSale(k).invoiceNumber.sequence)

\* a second sale has just been committed, in a later month than the first
\* and after the first was cancelled; its invoice number ends in 0002
C14_Witness ==
    /\ call.op = "completeSale"
    /\ toast = "pos.saleCompleted"
    /\ Len(sales) = 2
    /\ KthSale(1).status = "cancelled"
    /\ KthSale(2).invoiceNumber.yearMonth > KthSale(1).invoiceNumber.yearMonth
    /\ KthSale(1).invoiceNumber.sequence = <<0, 0, 0, 1>>
    /\ KthSale(2).invoiceNumber.sequence = <<0, 0, 0, 2>>

\* the status the data model gives a debt, from what is paid and what is owed
StatusOf(paid, amount) ==
    IF paid <= 0 THEN "pending" ELSE IF paid < amount THEN "partial" ELSE "paid"

HasDebt(ds, id) == \E i \in 1 .. Len(ds) : ds[i].id = id
DebtOf(ds, id) == ds[CHOOSE i \in 1 .. Len(ds) : ds[i].id = id]

\* C15: after every addPayment on a debt, whatever the debt held before and
\* whatever was paid before, the debt has paid raised by the payment,
\* remaining = amount - paid and the status StatusOf(paid, amount); the
\* other debts, and the number of debts, are as they were.
C15_PaymentKeepsDebtConsistent ==
    [][ call'.op = "addPayment"
        => \A id \in 1 .. MaxDebts, amount \in PaymentValues :
             (AddPaymentCall(id, amount) /\ HasDebt(debts, id))
             => (/\ Len(debts') = Len(debts)
                 /\ \A i \in 1 .. Len(debts) :
                       IF debts[i].id = id
                       THEN /\ debts'[i].id = id
                            /\ debts'[i].amount = debts[i].amount
                            /\ debts'[i].paid = debts[i].paid + amount
                            /\ debts'[i].remaining = debts'[i].amount - debts'[i].paid
                            /\ debts'[i].status = StatusOf(debts'[i].paid, debts'[i].amount)
                       ELSE debts'[i] = debts[i]) ]_vars

\* a second payment has just settled a debt of 20 that went through
\* 'partial', next to a debt that was never paid on
C15_Witness ==
    /\ call.op = "addPayment"
    /\ Len(debts) = 2
    /\ \E i, j \in 1 .. 2 :
          /\ debts[i].amount = 20
          /\ Len(debts[i].payments) = 2
          /\ debts[i].status = "paid"
          /\ debts[i].remaining = 0
          /\ debts[j].payments = <<>>
          /\ debts[j].status = "pending"

\* C16: addPayment with an amount <= 0 leaves the debts as they were: paid,
\* remaining and status keep their values and no payment record is appended.
C16_NonPositivePaymentRejected ==
    [][ call'.op = "addPayment"
        => \A id \in 1 .. MaxDebts, amount \in {v \in PaymentValues : v <= 0} :
             AddPaymentCall(id, amount) => debts' = debts ]_vars

\* C17: addPayment of the debt's current remaining, for a debt with
\* remaining > 0, sets remaining to 0 and status to 'paid' and appends
\* exactly one payment record.
C17_PayingRemainingSettles ==
    [][ call'.op = "addPayment"
        => \A id \in 1 .. MaxDebts :
             (/\ HasDebt(debts, id)
              /\ DebtOf(debts, id).remaining > 0
              /\ AddPaymentCall(id, DebtOf(debts, id).remaining))
             => (/\ DebtOf(debts', id).remaining = 0
                 /\ DebtOf(debts', id).status = "paid"
                 /\ Len(DebtOf(debts', id).payments)
                       = Len(DebtOf(debts, id).payments) + 1) ]_vars

\* C18: every debt addDebt has just put in the store has paid = 0,
\* remaining = amount and status 'pending'; and every debt no payment was
\* recorded on satisfies remaining = amount - paid.
C18_OpenedDebtIsPending ==
    /\ [](\A i \in 1 .. Len(debts) :
            debts[i].payments = <<>> => debts[i].remaining = debts[i].amount - debts[i].paid)
    /\ [][ call'.op = "addDebt"
           => (/\ Head(debts').paid = 0
               /\ Head(debts').remaining = Head(debts').amount
               /\ Head(debts').status = "pending") ]_vars

\* C19: an adjustment of a stored product by delta (the typed quantity for
\* 'in', its negation for 'out') is refused with the insufficient-quantity
\* message, leaving products and movements alone, when quantity + delta < 0;
\* otherwise the quantity becomes quantity + delta and exactly one movement
\* is put in front of the log, of type 'in' when the quantity went up and
\* 'out' when it went down, its quantity being the size of the change.
C19_AdjustmentAndItsMovement ==
    [][ call'.op = "handleAdjustment"
        => \A pid \in ProductIds, type \in {"in", "out"}, quantity \in AdjustmentQuantities :
             (InStore(pid) /\ handleAdjustmentWithin(MaxLog, pid, type, quantity, TRUE))
             => LET before == OnHand(products, pid)
                    delta == IF type = "in" THEN quantity ELSE 0 - quantity
                IN  IF before + delta < 0
                    THEN /\ toast' = "Quantite insuffisante"
                         /\ products' = products
                         /\ movements' = movements
                    ELSE /\ OnHand(products', pid) = before + delta
                         /\ Len(movements') = Len(movements) + 1
                         /\ Tail(movements') = movements
                         /\ Head(movements').productId = pid
                         /\ delta > 0 => (/\ Head(movements').type = "in"
                                          /\ Head(movements').quantity = delta)
                         /\ delta < 0 => (/\ Head(movements').type = "out"
                                          /\ Head(movements').quantity = 0 - delta) ]_vars

\* C20: every step either leaves the movement log as it is or puts exactly
\* one movement in front of it, so every recorded movement stays, with its
\* fields and in its order, and the log never gets shorter.
C20_MovementLogAppendOnly ==
    [][ \/ movements' = movements
        \/ /\ Len(movements') = Len(movements) + 1
           /\ Tail(movements') = movements ]_vars

\* the product two recorded movements refer to has just been deleted
C20_Witness ==
    /\ call.op = "handleDelete"
    /\ products = <<>>
    /\ Len(movements) = 2
    /\ movements[1].productId = 1
    /\ movements[2].productId = 1
    /\ movements[1].id # movements[2].id

\* the products at or under their threshold that still have stock
LowStock(ps) ==
    LET low(p) == 0 < p.quantity /\ p.quantity <= p.minQuantity IN SelectSeq(ps, low)

\* C21: the low-stock list of the store, of the dashboard and of the stock page
\* is exactly the products with 0 < quantity <= minQuantity, in the order of
\* the product list; the out-of-stock list is exactly those with quantity 0;
\* no product is in both
C21_LowStockExcludesZero ==
    LET OutOfStockList == LET out(p) == p.quantity = 0 IN SelectSeq(products, out) IN
    /\ getLowStockProducts(products) = LowStock(products)
    /\ getStats(products).lowStockCount = Len(LowStock(products))
    /\ lowStockProducts(products) = LowStock(products)
    /\ outOfStockProducts(products) = OutOfStockList
    /\ \A i \in 1 .. Len(getLowStockProducts(products)) :
          getLowStockProducts(products)[i].quantity # 0

\* the amount paid on a debt after its first n payments
PaidAfter(d, n) ==
    LET RECURSIVE later(_)
        later(k) == IF k > Len(d.payments) THEN 0
                    ELSE d.payments[k].amount + later(k + 1)
    IN d.paid - later(n + 1)

\* some payment recorded on the debt brought it to status paid
SettledByPayment(d) ==
    \E n \in 1 .. Len(d.payments) : d.amount - PaidAfter(d, n) <= 0

\* a call of getOverdueDebts returns exactly the debts that have a due date,
\* whose due date is before the time of the call and whose status is not
\* paid, in the order of the debts list, and it changes no debt
OverdueIsExactAndPure ==
    [][call'.op = "getOverdueDebts" =>
         LET result == call'.result IN
         /\ debts' = debts
         /\ \A i \in 1 .. Len(result) :
               /\ result[i].dueDate # 0
               /\ result[i].dueDate < now
               /\ result[i].status # "paid"
               /\ \E k \in 1 .. Len(debts) : debts[k] = result[i]
         /\ \A k \in 1 .. Len(debts) :
               (debts[k].dueDate # 0 /\ debts[k].dueDate < now /\ debts[k].status # "paid")
                   => \E i \in 1 .. Len(result) : result[i] = debts[k]
         /\ \A i, j \in 1 .. Len(result) :
               i < j => \E k, l \in 1 .. Len(debts) :
                           k < l /\ debts[k] = result[i] /\ debts[l] = result[j]
    ]_vars

\* C22: getOverdueDebts is exact and changes no state, and so a debt that a
\* payment has settled is returned by no later call of it
C22_SettledDebtNeverOverdueAgain ==
    /\ OverdueIsExactAndPure
    /\ [][call'.op = "getOverdueDebts" =>
            \A i \in 1 .. Len(call'.result) : ~SettledByPayment(call'.result[i])]_vars

\* C23: an operation given an id its store does not hold changes nothing: a
\* commit of a cart with a line whose product has been deleted records no
\* sale and changes no product, and cancelSale with an unknown sale id and
\* addPayment with an unknown debt id leave their lists as they are
C23_UnknownIdChangesNothing ==
    /\ [](\A id \in 1 .. MaxInvoices + 1 :
             (\A i \in 1 .. Len(sales) : sales[i].id # id) => cancelSale(sales, id) = sales)
    /\ [](\A debtId \in 1 .. MaxDebts + 1, amount \in PaymentValues :
             ~HasDebt(debts, debtId) =>
                 addPayment(debts, debtId, [amount |-> amount, paymentMethod |-> "cash"], now)
                     = debts)
    /\ [][ (call'.op = "completeSale"
             /\ \E i \in 1 .. Len(cart) : ~InStore(cart[i].productId))
            => (sales' = sales /\ products' = products /\ cart' = cart) ]_vars

\* C24: every recorded sale that was paid less than its total has a debt
\* opened for it: a debt whose saleId is the sale's id and whose amount is
\* the part of the total left unpaid
C24_PartialSaleHasDebt ==
    \A i \in 1 .. Len(sales) :
        sales[i].paidAmount < sales[i].total =>
            \E k \in 1 .. Len(debts) :
                /\ debts[k].saleId = sales[i].id
                /\ debts[k].amount = sales[i].total - sales[i].paidAmount

\* C25: removing the line of a product twice gives the cart that removing it
\* once gives; removing the line of a product that has none leaves the cart
\* as it is; the lines of the other products are kept as they are; and the
\* trash button of a line does exactly this removal
C25_RemoveLineIdempotentAndTotal ==
    /\ [](\A pid \in ProductIds :
            LET once == removeFromCart(cart, pid) IN
            /\ removeFromCart(once, pid) = once
            /\ ~HasLine(once, pid)
            /\ ~HasLine(cart, pid) => once = cart
            /\ \A other \in ProductIds \ {pid} :
                  /\ HasLine(once, other) <=> HasLine(cart, other)
                  /\ HasLine(cart, other) => LineOf(once, other) = LineOf(cart, other))
    /\ [][call'.op = "removeFromCart" => cart' = removeFromCart(cart, call'.productId)]_vars

\* the line of one product has just been removed and the line of the other
\* product, with two units, is still in the cart
C25_Witness ==
    /\ call.op = "removeFromCart"
    /\ ~HasLine(cart, call.productId)
    /\ \E other \in ProductIds \ {call.productId} :
          HasLine(cart, other) /\ LineOf(cart, other).quantity = 2

\* C26: loading the stores back from their blobs gives the products, the
\* sales and the debts that were written, field for field, their creation,
\* due and payment dates included
C26_ReloadReproducesSnapshot ==
    [][call'.op = "reload" =>
         (products' = products /\ sales' = sales /\ debts' = debts)]_vars

\* C27: every line of the cart is for a product of the store and asks for at
\* least one unit and at most the quantity that product has on hand
C27_CartWithinStock ==
    \A i \in 1 .. Len(cart) :
        /\ InStore(cart[i].productId)
        /\ 1 <= cart[i].quantity
        /\ cart[i].quantity <= OnHand(products, cart[i].productId)

\* C28: while a user is signed in, the page displayed is one that the role
\* filter of the sidebar allows for that user's role
C28_PageAllowedForRole ==
    isAuthenticated => currentPage \in filteredNavItems(currentUser)

\* C29: a commit that records a sale changes the sales and the quantity of
\* the products sold and nothing else: the movement log and the debts are
\* what they were, no product is added or removed, and a product keeps its
\* price and its threshold and, when it has no line in the cart, its quantity
C29_CommitWritesSalesAndStockOnly ==
    [][ Committed
        => (/\ movements' = movements
            /\ debts' = debts
            /\ Len(products') = Len(products)
            /\ \A k \in 1 .. Len(products) :
                  /\ [products'[k] EXCEPT !.quantity = 0] = [products[k] EXCEPT !.quantity = 0]
                  /\ ~HasLine(cart, products[k].id) => products'[k] = products[k]) ]_vars

\* a sale of product 1 has just been committed while the movement log holds
\* an adjustment and a debt is open; product 2 has its quantity
C29_Witness ==
    /\ call.op = "completeSale"
    /\ toast = "pos.saleCompleted"
    /\ Len(sales) = 1
    /\ sales[1].items[1].productId = 1
    /\ Len(sales[1].items) = 1
    /\ Len(movements) = 1
    /\ Len(debts) = 1
    /\ OnHand(products, 2) = MaxQty

\* C30: no two recorded sales have the same invoice number, whatever commits
\* and cancellations were made, and a cancellation removes no sale
C30_InvoiceNumbersDistinct ==
    /\ [](\A i, j \in 1 .. Len(sales) :
             i # j => sales[i].invoiceNumber # sales[j].invoiceNumber)
    /\ [][Len(sales') >= Len(sales)]_vars

\* two sales are recorded in the same month and one of them has just been
\* cancelled; their numbers end in 0001 and 0002
C30_Witness ==
    /\ call.op = "handleCancelSale"
    /\ Len(sales) = 2
    /\ sales[1].invoiceNumber.yearMonth = sales[2].invoiceNumber.yearMonth
    /\ \E i \in 1 .. 2 : sales[i].status = "cancelled"
    /\ sales[2].invoiceNumber.sequence = <<0, 0, 0, 1>>
    /\ sales[1].invoiceNumber.sequence = <<0, 0, 0, 2>>

====
